---- MODULE Spec2Model ----
(***************************************************************************)
(* Model of app/src/server/projLevel/deploy.js of DockDev: the steps that  *)
(* provision a remote machine (initRemote), sync the project to it         *)
(* (syncFilesToRemote), build the server image (buildServerImage) and      *)
(* create the containers (createRemoteContainer), with the pure helpers    *)
(* that build records, container entries and container configurations.     *)
(*                                                                         *)
(* A coroutine is modelled by one action per resumption: the action takes  *)
(* the result of the external call the coroutine is suspended on and runs  *)
(* the code up to the next yield, the return or the throw.                 *)
(***************************************************************************)
EXTENDS Integers, Sequences, FiniteSets, TLC

VARIABLES
  pc,          \* external call the running step is suspended on, or "idle"
  op,          \* the running (or last) step: its name and its arguments
  frame,       \* the local constants of the running (or last) step
  calls,       \* external calls made by the running (or last) step, in order
  outcome,     \* how the last step ended: nothing yet, a return or a throw
  remoteObj,   \* the Deployment Record the caller holds
  containers,  \* the caller's sequence of Container entries
  done,        \* steps that succeeded on the record the caller holds
  built        \* image tags built on the machine of the record the caller holds

vars == <<pc, op, frame, calls, outcome, remoteObj, containers, done, built>>

----------------------------------------------------------------------------
(* Bounds and input sets *)

MaxContainers == 2

CleanNames == {"blog", "demo"}

\* the value of a JavaScript variable that holds no string
UNDEFINED == "<undefined>"

Paths == {"/home/me/blog", UNDEFINED}

Tokens == {"dop_v1_token"}

IPs == {"10.0.0.7", "10.0.0.9"}

Ids == {"c0ffee", "f00d42"}

\* errors of the transports below deploy.js
LowErrors == {"ECONNREFUSED", "EXIT_1"}

----------------------------------------------------------------------------
(* Domain errors imported from ../appLevel/errorMsgs *)

FAILED_TO_CREATE_DOCKERFILE == "FAILED_TO_CREATE_DOCKERFILE"

FAILED_TO_SYNC_TO_REMOTE == "FAILED_TO_SYNC_TO_REMOTE"

FAILED_TO_BUILD_SERVER_IMAGE == "FAILED_TO_BUILD_SERVER_IMAGE"

NO_DOTOKEN == "NO_DOTOKEN"

\* what a method call on a value that is not a string throws
TypeError == "TypeError"

----------------------------------------------------------------------------
(* JavaScript objects are records; a property may be missing *)

Has(obj, f) == f \in DOMAIN obj

\* if (obj.f) for a boolean property that may be missing
Truthy(obj, f) == Has(obj, f) /\ obj[f] = TRUE

\* { ...obj, ...upd }
Spread(obj, upd) ==
  [f \in DOMAIN obj \cup DOMAIN upd |-> IF f \in DOMAIN upd THEN upd[f] ELSE obj[f]]

NoRecord == [undefined |-> TRUE]

IsRecord(r) == Has(r, "machine")

----------------------------------------------------------------------------
(* Pure helpers of deploy.js *)

createRemoteObj_underscore(cleanName, basePath) ==
  [cleanName |-> cleanName,
   basePath  |-> basePath,
   machine   |-> "dockdev_" \o cleanName,
   ipAddress |-> "",
   containers |-> <<>>,
   counter   |-> 0,
   status    |-> 0]

createRemoteObj_localhost(cleanName, basePath) ==
  [cleanName |-> cleanName,
   basePath  |-> basePath,
   machine   |-> "dockdev-" \o cleanName,
   ipAddress |-> "127.0.0.1",
   containers |-> <<>>,
   counter   |-> 0,
   status    |-> 0]

createRemoteObj(cleanName, basePath) ==
  [cleanName |-> cleanName,
   basePath  |-> basePath,
   machine   |-> "dockdev-" \o cleanName,
   ipAddress |-> "",
   containers |-> <<>>,
   counter   |-> 0,
   status    |-> 0]

setRemoteServerParams_machineHost(container, r) ==
  [image |-> container.image,
   name  |-> container.name,
   Env   |-> <<"VIRTUAL_HOST=" \o r.machine>>,
   HostConfig |-> [NetworkMode |-> container.cleanName]]

setRemoteServerParams(container, r) ==
  [image |-> container.image,
   name  |-> container.name,
   Env   |-> <<"VIRTUAL_HOST=" \o r.ipAddress>>,
   HostConfig |-> [NetworkMode |-> container.cleanName]]

setRemoteDbs(container) ==
  [image |-> container.image,
   name  |-> container.name,
   HostConfig |-> [NetworkMode |-> container.cleanName]]

setProxyParams_port8080(container) ==
  [image |-> container.image,
   name  |-> container.name,
   HostConfig |->
     [Binds |-> <<"/var/run/docker.sock:/tmp/docker.sock:ro">>,
      PortBindings |-> [p \in {"8080/tcp"} |-> <<[HostPort |-> "80"]>>]],
   ExposedPorts |-> [p \in {"80/tcp"} |-> <<>>]]

setProxyParams(container) ==
  [image |-> container.image,
   name  |-> container.name,
   HostConfig |->
     [Binds |-> <<"/var/run/docker.sock:/tmp/docker.sock:ro">>,
      PortBindings |-> [p \in {"80/tcp"} |-> <<[HostPort |-> "80"]>>]],
   ExposedPorts |-> [p \in {"80/tcp"} |-> <<>>]]

createDroplet_nameFirst(dropletName, token, args) ==
  <<dropletName, "--driver digitalocean", "--digitalocean-access-token=" \o token>>
    \o args

\* the argument list createDroplet passes to createMachine
createDroplet(dropletName, token, args) ==
  <<"--driver digitalocean", "--digitalocean-access-token=" \o token>>
    \o args \o <<dropletName>>

\* containerObj of ./containerMgmt: the baseline Container entry of an image
containerObj(cleanName, imageObj) ==
  [cleanName |-> cleanName,
   image     |-> imageObj.name,
   dockerId  |-> "",
   name      |-> imageObj.name,
   server    |-> imageObj.server,
   status    |-> "pending"]

addNginxContainer_prepend(cs, r) ==
  LET nginx == containerObj(r.cleanName,
                            [name |-> "jwilder/nginx-proxy", server |-> FALSE])
  IN <<Spread(nginx, [nginx |-> TRUE, name |-> "proxy"])>> \o cs

addNginxContainer(cs, r) ==
  LET nginx == containerObj(r.cleanName,
                            [name |-> "jwilder/nginx-proxy", server |-> FALSE])
  IN cs \o <<Spread(nginx, [nginx |-> TRUE, name |-> "proxy"])>>

remoteServerObj_noCounter(r) ==
  [cleanName |-> r.cleanName,
   image     |-> "dockdev/" \o r.cleanName \o ":" \o ToString(r.counter),
   dockerId  |-> "",
   name      |-> "server",
   server    |-> TRUE,
   status    |-> "pending",
   machine   |-> r.machine]

remoteServerObj(r) ==
  [cleanName |-> r.cleanName,
   image     |-> "dockdev/" \o r.cleanName \o ":" \o ToString(r.counter),
   dockerId  |-> "",
   name      |-> "server" \o ToString(r.counter),
   server    |-> TRUE,
   status    |-> "pending",
   machine   |-> r.machine]

getRemoteConfig_nginxFirst(container, r) ==
  IF Truthy(container, "nginx") THEN setProxyParams(container)
  ELSE IF Truthy(container, "server") THEN setRemoteServerParams(container, r)
  ELSE setRemoteDbs(container)

getRemoteConfig(container, r) ==
  IF Truthy(container, "server") THEN setRemoteServerParams(container, r)
  ELSE IF Truthy(container, "nginx") THEN setProxyParams(container)
  ELSE setRemoteDbs(container)

buildTag_latest(r) == "dockdev/" \o r.cleanName \o ":latest"

\* the tag buildServerImage gives the image
buildTag(r) == "dockdev/" \o r.cleanName \o ":" \o ToString(r.counter)

\* the command buildServerImage runs on the machine
buildCommand(r) == "docker build -t " \o buildTag(r) \o " ."

----------------------------------------------------------------------------
(* Collaborators of deploy.js that are pure functions *)

\* rsync.cleanFilePath: a string method applied to basePath
cleanFilePath(basePath) ==
  IF basePath = UNDEFINED
    THEN [ok |-> FALSE, error |-> TypeError]
    ELSE [ok |-> TRUE, value |-> basePath]

\* rsync.selectSSHandIP: the SSH key and the IP address of the inspect metadata
selectSSHandIP(meta) ==
  IF ~Has(meta, "Driver")
    THEN [ok |-> FALSE, error |-> TypeError]
    ELSE [ok |-> TRUE,
          value |-> [IPAddress  |-> meta.Driver.IPAddress,
                     SSHKeyPath |-> meta.Driver.SSHKeyPath]]

\* rsync.createRemoteRsyncArgs
createRemoteRsyncArgs(source, dest, machineInfo, local) ==
  [source |-> source, dest |-> dest, machineInfo |-> machineInfo, local |-> local]

\* defaultConfig.configPath() and defaultConfig.remoteDest
configPath == "~/.dockdevConfig"

remoteDest == "/root"

----------------------------------------------------------------------------
(* Results of the external calls: a resolved or a rejected promise *)

Resolved(v) == [ok |-> TRUE, value |-> v]

Rejected(e) == [ok |-> FALSE, error |-> e]

Failures == {Rejected(e) : e \in LowErrors}

Configs == {[DOToken |-> t] : t \in Tokens \cup {""}} \cup {[projects |-> <<>>]}

ReadConfigResults == {Resolved(c) : c \in Configs} \cup Failures

LoadProjectResults == {Resolved([projectName |-> "project"])} \cup Failures

UnitResults == {Resolved(TRUE)} \cup Failures

InspectResults ==
  {Resolved([Driver |-> [IPAddress |-> ip, SSHKeyPath |-> "~/.docker/id_rsa"]]) :
     ip \in IPs}
  \cup {Resolved([Name |-> "machine"])}
  \cup Failures

ContainerCreateResults == {Resolved([Id |-> id]) : id \in Ids} \cup Failures

\* Container entries a caller may pass besides the ones the helpers build
InputContainers ==
  [cleanName : CleanNames, image : {"mongo:3"}, dockerId : {""}, name : {"db"},
   server : BOOLEAN, status : {"pending"}]
  \cup
  [cleanName : CleanNames, image : {"mongo:3"}, dockerId : {""}, name : {"db"},
   server : BOOLEAN, nginx : BOOLEAN, status : {"pending"}]

----------------------------------------------------------------------------
(* Bookkeeping of a step *)

Pending == [kind |-> "pending"]

Return(v) == [kind |-> "return", value |-> v]

Throw(e) == [kind |-> "throw", error |-> e]

\* an external call is logged when it is made and settled when its promise is
Issue(fn, args) == [fn |-> fn, args |-> args, status |-> "pending", res |-> Pending]

Settle(cs, res) ==
  [cs EXCEPT ![Len(cs)].status = IF res.ok THEN "ok" ELSE "failed",
             ![Len(cs)].res = res]

Names(cs) == [i \in 1..Len(cs) |-> cs[i].fn]

Range(f) == {f[i] : i \in DOMAIN f}

Init ==
  /\ pc = "idle"
  /\ op = [name |-> "none"]
  /\ frame = [none |-> TRUE]
  /\ calls = <<>>
  /\ outcome = Pending
  /\ remoteObj = NoRecord
  /\ containers = <<>>
  /\ done = {}
  /\ built = {}

----------------------------------------------------------------------------
(* initRemote(cleanName, path) *)

initRemoteSteps_writeFirst ==
  <<"readConfig", "loadProject", "writeProj", "createMachine", "createRemoteNetwork">>

\* the external calls of initRemote in the order of its yields
initRemoteSteps ==
  <<"readConfig", "loadProject", "createMachine", "writeProj", "createRemoteNetwork">>

noToken_undefinedOnly(DOToken) == DOToken = UNDEFINED

\* if (!DOToken)
noToken(DOToken) == DOToken = UNDEFINED \/ DOToken = ""

\* the arguments initRemote passes to an external call
initRemoteArgs(step, o, fr) ==
  CASE step = "readConfig"          -> <<fr.configPath>>
    [] step = "loadProject"         -> <<o.path>>
    [] step = "createMachine"       -> createDroplet(fr.remoteObj.machine, fr.DOToken, <<>>)
    [] step = "writeProj"           -> <<fr.projObj>>
    [] step = "createRemoteNetwork" -> <<fr.remoteObj>>

StepIndex(step) == CHOOSE i \in 1..Len(initRemoteSteps) : initRemoteSteps[i] = step

\* resume initRemote after `step` resolved: the next yield, or the return
initRemoteAdvance(step, res, fr) ==
  IF StepIndex(step) < Len(initRemoteSteps)
    THEN LET next == initRemoteSteps[StepIndex(step) + 1] IN
         /\ pc' = next
         /\ calls' = Append(Settle(calls, res), Issue(next, initRemoteArgs(next, op, fr)))
         /\ frame' = fr
         /\ outcome' = Pending
         /\ UNCHANGED <<op, remoteObj, containers, done, built>>
    ELSE /\ pc' = "idle"
         /\ calls' = Settle(calls, res)
         /\ frame' = fr
         /\ outcome' = Return(fr.remoteObj)
         /\ remoteObj' = fr.remoteObj
         /\ done' = {"initRemote"}
         /\ built' = {}
         /\ UNCHANGED <<op, containers>>

\* a rejected promise is thrown into the coroutine, which has no try block
initRemoteFail(res) ==
  /\ pc' = "idle"
  /\ calls' = Settle(calls, res)
  /\ outcome' = Throw(res.error)
  /\ UNCHANGED <<op, frame, remoteObj, containers, done, built>>

InitRemoteCall ==
  /\ pc = "idle"
  /\ \E cleanName \in CleanNames, path \in Paths :
       LET o  == [name |-> "initRemote", cleanName |-> cleanName, path |-> path]
           fr == [configPath |-> configPath]
       IN /\ op' = o
          /\ frame' = fr
          /\ calls' = <<Issue(initRemoteSteps[1], initRemoteArgs(initRemoteSteps[1], o, fr))>>
          /\ pc' = initRemoteSteps[1]
  /\ outcome' = Pending
  /\ UNCHANGED <<remoteObj, containers, done, built>>

InitRemoteReadConfig ==
  /\ pc = "readConfig"
  /\ op.name = "initRemote"
  /\ \E res \in ReadConfigResults :
       IF ~res.ok THEN initRemoteFail(res)
       ELSE LET DOToken == IF Has(res.value, "DOToken") THEN res.value.DOToken
                           ELSE UNDEFINED
                fr0 == Spread(frame, [readConfigFile |-> res.value, DOToken |-> DOToken])
            IN IF noToken(DOToken)
                 THEN /\ pc' = "idle"
                      /\ calls' = Settle(calls, res)
                      /\ frame' = fr0
                      /\ outcome' = Throw(NO_DOTOKEN)
                      /\ UNCHANGED <<op, remoteObj, containers, done, built>>
                 ELSE initRemoteAdvance("readConfig", res,
                        Spread(fr0, [remoteObj |-> createRemoteObj(op.cleanName, op.path)]))

InitRemoteLoadProject ==
  /\ pc = "loadProject"
  /\ op.name = "initRemote"
  /\ \E res \in LoadProjectResults :
       IF ~res.ok THEN initRemoteFail(res)
       ELSE initRemoteAdvance("loadProject", res, Spread(frame, [projObj |-> res.value]))

InitRemoteCreateMachine ==
  /\ pc = "createMachine"
  /\ op.name = "initRemote"
  /\ \E res \in UnitResults :
       IF ~res.ok THEN initRemoteFail(res)
       ELSE initRemoteAdvance("createMachine", res, frame)

InitRemoteWriteProj ==
  /\ pc = "writeProj"
  /\ op.name = "initRemote"
  /\ \E res \in UnitResults :
       IF ~res.ok THEN initRemoteFail(res)
       ELSE initRemoteAdvance("writeProj", res, frame)

InitRemoteCreateRemoteNetwork ==
  /\ pc = "createRemoteNetwork"
  /\ op.name = "initRemote"
  /\ \E res \in UnitResults :
       IF ~res.ok THEN initRemoteFail(res)
       ELSE initRemoteAdvance("createRemoteNetwork", res, frame)

----------------------------------------------------------------------------
(* syncFilesToRemote(remoteObj, local) *)

syncFilesToRemoteReturn_sshKey(r, machineInfo) ==
  Spread(r, [ipAddress |-> machineInfo.SSHKeyPath])

\* { ...remoteObj, ipAddress: machineInfo.IPAddress }
syncFilesToRemoteReturn(r, machineInfo) ==
  Spread(r, [ipAddress |-> machineInfo.IPAddress])

\* catch (e) { throw FAILED_TO_SYNC_TO_REMOTE; }
syncFilesToRemoteCatch(e) == FAILED_TO_SYNC_TO_REMOTE

\* entry: cleanFilePath and dest are evaluated before the try block is entered
SyncFilesToRemoteCall ==
  /\ pc = "idle"
  /\ \E local \in BOOLEAN :
       LET cleanPath == IF IsRecord(remoteObj) THEN cleanFilePath(remoteObj.basePath)
                        ELSE Rejected(TypeError)  \* remoteObj.basePath of undefined
           dest == IF local THEN "/home/docker" ELSE remoteDest
       IN /\ op' = [name |-> "syncFilesToRemote", remoteObj |-> remoteObj, local |-> local]
          /\ IF ~cleanPath.ok
               THEN /\ pc' = "idle"
                    /\ frame' = [local |-> local]
                    /\ calls' = <<>>
                    /\ outcome' = Throw(cleanPath.error)
               ELSE /\ pc' = "inspect"
                    /\ frame' = [cleanPath |-> cleanPath.value, dest |-> dest]
                    /\ calls' = <<Issue("inspect", <<remoteObj.machine>>)>>
                    /\ outcome' = Pending
  /\ UNCHANGED <<remoteObj, containers, done, built>>

SyncFilesToRemoteInspect ==
  /\ pc = "inspect"
  /\ \E res \in InspectResults :
       LET machineInfo == IF res.ok THEN selectSSHandIP(res.value) ELSE res IN
       IF ~machineInfo.ok
         THEN /\ pc' = "idle"
              /\ calls' = Settle(calls, res)
              /\ outcome' = Throw(syncFilesToRemoteCatch(machineInfo.error))
              /\ UNCHANGED frame
         ELSE LET remoteRsyncArgs ==
                    createRemoteRsyncArgs(frame.cleanPath \o "/*", frame.dest,
                                          machineInfo.value, op.local)
              IN /\ pc' = "rsync"
                 /\ frame' = Spread(frame, [machineInfo |-> machineInfo.value,
                                            remoteRsyncArgs |-> remoteRsyncArgs])
                 /\ calls' = Append(Settle(calls, res), Issue("rsync", <<remoteRsyncArgs>>))
                 /\ outcome' = Pending
  /\ UNCHANGED <<op, remoteObj, containers, done, built>>

SyncFilesToRemoteRsync ==
  /\ pc = "rsync"
  /\ \E res \in UnitResults :
       /\ pc' = "idle"
       /\ calls' = Settle(calls, res)
       /\ IF res.ok
            THEN LET ret == syncFilesToRemoteReturn(op.remoteObj, frame.machineInfo) IN
                 /\ outcome' = Return(ret)
                 /\ remoteObj' = ret
                 /\ done' = done \cup {"syncFilesToRemote"}
                 /\ UNCHANGED built
            ELSE /\ outcome' = Throw(syncFilesToRemoteCatch(res.error))
                 /\ UNCHANGED <<remoteObj, done, built>>
  /\ UNCHANGED <<op, frame, containers>>

----------------------------------------------------------------------------
(* buildServerImage(remoteObj) *)

\* the .catch that would throw FAILED_TO_BUILD_SERVER_IMAGE is commented out:
\* the promise of ssh(...).then(() => true) rejects with the error of ssh
buildServerImageCatch(e) == e

BuildServerImageCall ==
  /\ pc = "idle"
  /\ IsRecord(remoteObj)
  /\ op' = [name |-> "buildServerImage", remoteObj |-> remoteObj]
  /\ frame' = [none |-> TRUE]
  /\ calls' = <<Issue("ssh", <<remoteObj.machine, buildCommand(remoteObj)>>)>>
  /\ pc' = "ssh"
  /\ outcome' = Pending
  /\ UNCHANGED <<remoteObj, containers, done, built>>

BuildServerImageSsh ==
  /\ pc = "ssh"
  /\ \E res \in UnitResults :
       /\ pc' = "idle"
       /\ calls' = Settle(calls, res)
       /\ IF res.ok
            THEN /\ outcome' = Return(TRUE)
                 /\ done' = done \cup {"buildServerImage"}
                 /\ built' = built \cup {buildTag(op.remoteObj)}
            ELSE /\ outcome' = Throw(buildServerImageCatch(res.error))
                 /\ UNCHANGED <<done, built>>
  /\ UNCHANGED <<op, frame, remoteObj, containers>>

----------------------------------------------------------------------------
(* createRemoteContainer(container, remoteObj), addNginxContainer, remoteServerObj *)

createRemoteContainerReturn_keepId(container, r, dockCont) ==
  Spread(container, [dockerId |-> container.dockerId, machine |-> r.machine])

\* { ...container, dockerId: dockCont.Id, machine: remoteObj.machine }
createRemoteContainerReturn(container, r, dockCont) ==
  Spread(container, [dockerId |-> dockCont.Id, machine |-> r.machine])

createRemoteContainerThrow_wrapped(e) == "FAILED_TO_CREATE_CONTAINER"

\* the coroutine has no try block: the rejection of containerCreate is its own
createRemoteContainerThrow(e) == e

CreateRemoteContainerCall ==
  /\ pc = "idle"
  /\ IsRecord(remoteObj)
  /\ \E container \in {remoteServerObj(remoteObj)} \cup Range(containers) \cup InputContainers :
       LET config == getRemoteConfig(container, remoteObj) IN
       /\ op' = [name |-> "createRemoteContainer", container |-> container,
                 remoteObj |-> remoteObj]
       /\ frame' = [config |-> config]
       /\ calls' = <<Issue("containerCreate", <<remoteObj.machine, config>>)>>
  /\ pc' = "containerCreate"
  /\ outcome' = Pending
  /\ UNCHANGED <<remoteObj, containers, done, built>>

CreateRemoteContainerCreate ==
  /\ pc = "containerCreate"
  /\ \E res \in ContainerCreateResults :
       /\ calls' = Settle(calls, res)
       /\ outcome' = IF res.ok
                       THEN Return(createRemoteContainerReturn(op.container, op.remoteObj,
                                                               res.value))
                       ELSE Throw(createRemoteContainerThrow(res.error))
  /\ pc' = "idle"
  /\ UNCHANGED <<op, frame, remoteObj, containers, done, built>>

AddNginxContainerCall ==
  /\ pc = "idle"
  /\ IsRecord(remoteObj)
  /\ Len(containers) < MaxContainers
  /\ op' = [name |-> "addNginxContainer", containers |-> containers, remoteObj |-> remoteObj]
  /\ frame' = [none |-> TRUE]
  /\ calls' = <<>>
  /\ outcome' = Return(addNginxContainer(containers, remoteObj))
  /\ containers' = addNginxContainer(containers, remoteObj)
  /\ UNCHANGED <<pc, remoteObj, done, built>>

\* the caller puts the server entry of its record on its container sequence
RemoteServerObjCall ==
  /\ pc = "idle"
  /\ IsRecord(remoteObj)
  /\ Len(containers) < MaxContainers
  /\ op' = [name |-> "remoteServerObj", remoteObj |-> remoteObj]
  /\ frame' = [none |-> TRUE]
  /\ calls' = <<>>
  /\ outcome' = Return(remoteServerObj(remoteObj))
  /\ containers' = Append(containers, remoteServerObj(remoteObj))
  /\ UNCHANGED <<pc, remoteObj, done, built>>

----------------------------------------------------------------------------
(* createDockerfile(containers, basePath) *)

dockerFile_upperFrom(image) ==
  "FROM " \o image \o "\n" \o
  "COPY . /app\n" \o
  "WORKDIR /app\n" \o
  "RUN [\"npm\", \"install\", \"--production\"]\n" \o
  "EXPOSE 3000\n" \o
  "CMD [\"npm\", \"start\"]"

\* the text of the Dockerfile for a server image
dockerFile(image) ==
  "From " \o image \o "\n" \o
  "COPY . /app\n" \o
  "WORKDIR /app\n" \o
  "RUN [\"npm\", \"install\", \"--production\"]\n" \o
  "EXPOSE 3000\n" \o
  "CMD [\"npm\", \"start\"]"

\* containers.filter(cont => cont.server)
filterServer(cs) == SelectSeq(cs, LAMBDA cont : Truthy(cont, "server"))

createDockerfileCatch_rethrow(e) == e

\* catch (e) { throw FAILED_TO_CREATE_DOCKERFILE; }
createDockerfileCatch(e) == FAILED_TO_CREATE_DOCKERFILE

\* entry: with no server container, server is undefined and server.image
\* throws inside the try block
CreateDockerfileCall ==
  /\ pc = "idle"
  /\ IsRecord(remoteObj)
  /\ LET basePath == remoteObj.basePath
         servers  == filterServer(containers)
     IN /\ op' = [name |-> "createDockerfile", containers |-> containers,
                  basePath |-> basePath]
        /\ IF servers = <<>>
             THEN /\ pc' = "idle"
                  /\ frame' = [none |-> TRUE]
                  /\ calls' = <<>>
                  /\ outcome' = Throw(createDockerfileCatch(TypeError))
             ELSE LET server == servers[1] IN
                  /\ pc' = "writeFile"
                  /\ frame' = [server |-> server, dockerFile |-> dockerFile(server.image)]
                  /\ calls' = <<Issue("writeFile",
                                      <<basePath \o "/Dockerfile", dockerFile(server.image)>>)>>
                  /\ outcome' = Pending
  /\ UNCHANGED <<remoteObj, containers, done, built>>

CreateDockerfileWriteFile ==
  /\ pc = "writeFile"
  /\ \E res \in UnitResults :
       /\ calls' = Settle(calls, res)
       /\ outcome' = IF res.ok THEN Return(TRUE)
                      ELSE Throw(createDockerfileCatch(res.error))
  /\ pc' = "idle"
  /\ UNCHANGED <<op, frame, remoteObj, containers, done, built>>

----------------------------------------------------------------------------

Next ==
  \/ InitRemoteCall
  \/ InitRemoteReadConfig
  \/ InitRemoteLoadProject
  \/ InitRemoteCreateMachine
  \/ InitRemoteWriteProj
  \/ InitRemoteCreateRemoteNetwork
  \/ SyncFilesToRemoteCall
  \/ SyncFilesToRemoteInspect
  \/ SyncFilesToRemoteRsync
  \/ BuildServerImageCall
  \/ BuildServerImageSsh
  \/ CreateRemoteContainerCall
  \/ CreateRemoteContainerCreate
  \/ AddNginxContainerCall
  \/ RemoteServerObjCall

Spec == Init /\ [][Next]_vars

----------------------------------------------------------------------------
(* The exported functions applied to arguments a caller may pass *)

MaxCounter == 2

MaxInput == 2

InputRecords ==
  {Spread(createRemoteObj(c, "/home/me/blog"), [ipAddress |-> ip, counter |-> n]) :
     c \in CleanNames, ip \in IPs \cup {""}, n \in 0..MaxCounter}

\* Container entries of the local project
ProjectContainers ==
  [cleanName : {"blog"}, image : {"node:8", "mongo:3"}, dockerId : {""},
   name : {"app"}, server : BOOLEAN, status : {"pending"}]

InputSeqs == UNION {[1..n -> ProjectContainers] : n \in 0..MaxInput}

FnInit ==
  /\ pc = "idle"
  /\ op = [name |-> "none"]
  /\ frame = [none |-> TRUE]
  /\ calls = <<>>
  /\ outcome = Pending
  /\ remoteObj \in InputRecords
  /\ containers \in InputSeqs
  /\ done = {}
  /\ built = {}

AddNginxContainerApply ==
  /\ pc = "idle"
  /\ op' = [name |-> "addNginxContainer", containers |-> containers, remoteObj |-> remoteObj]
  /\ frame' = [none |-> TRUE]
  /\ calls' = <<>>
  /\ outcome' = Return(addNginxContainer(containers, remoteObj))
  /\ UNCHANGED <<pc, remoteObj, containers, done, built>>

RemoteServerObjApply ==
  /\ pc = "idle"
  /\ op' = [name |-> "remoteServerObj", remoteObj |-> remoteObj]
  /\ frame' = [none |-> TRUE]
  /\ calls' = <<>>
  /\ outcome' = Return(remoteServerObj(remoteObj))
  /\ UNCHANGED <<pc, remoteObj, containers, done, built>>

FnNext ==
  \/ AddNginxContainerApply
  \/ RemoteServerObjApply
  \/ CreateDockerfileCall
  \/ CreateDockerfileWriteFile
  \/ BuildServerImageCall
  \/ BuildServerImageSsh
  \/ CreateRemoteContainerCall
  \/ CreateRemoteContainerCreate

FnSpec == FnInit /\ [][FnNext]_vars

TypeOK ==
  /\ pc \in {"idle", "readConfig", "loadProject", "createMachine", "writeProj",
             "createRemoteNetwork", "inspect", "rsync", "ssh", "containerCreate",
             "writeFile"}
  /\ Len(containers) <= MaxContainers
  /\ outcome.kind \in {"pending", "return", "throw"}

----------------------------------------------------------------------------
(* Properties of initRemote *)

ConfigLacksToken(cfg) == ~Has(cfg, "DOToken") \/ cfg.DOToken = ""

ProvisioningCalls == {"loadProject", "createMachine", "writeProj", "createRemoteNetwork"}

\* C1: when the configuration initRemote read has no DOToken (absent or empty),
\* initRemote has failed with NO_DOTOKEN and has made none of the calls
\* loadProject, createMachine, writeProj, createRemoteNetwork.
C1_NoTokenNoProvisioning ==
  (op.name = "initRemote" /\ Has(frame, "readConfigFile")
     /\ ConfigLacksToken(frame.readConfigFile))
  => /\ pc = "idle"
     /\ outcome = Throw(NO_DOTOKEN)
     /\ \A i \in DOMAIN calls : calls[i].fn \notin ProvisioningCalls

C1_Witness ==
  /\ op.name = "initRemote"
  /\ Has(frame, "readConfigFile")
  /\ Has(frame.readConfigFile, "DOToken")
  /\ frame.readConfigFile.DOToken = ""
  /\ outcome = Throw(NO_DOTOKEN)
  /\ Names(calls) = <<"readConfig">>

InitRemoteOrder ==
  <<"readConfig", "loadProject", "createMachine", "writeProj", "createRemoteNetwork">>

\* C2: the external calls of a run of initRemote are a prefix of readConfig,
\* loadProject, createMachine, writeProj, createRemoteNetwork (each at most
\* once, in that order); once createMachine has failed the run has failed,
\* neither writeProj nor createRemoteNetwork was called and nothing is returned.
C2_SequentialFailFast ==
  op.name = "initRemote" =>
    /\ Len(calls) <= Len(InitRemoteOrder)
    /\ \A i \in DOMAIN calls : calls[i].fn = InitRemoteOrder[i]
    /\ \A i \in DOMAIN calls :
         (calls[i].fn = "createMachine" /\ calls[i].status = "failed")
         => /\ pc = "idle"
            /\ outcome.kind = "throw"
            /\ \A j \in DOMAIN calls : calls[j].fn \notin {"writeProj", "createRemoteNetwork"}

C2_Witness ==
  /\ op.name = "initRemote"
  /\ Names(calls) = <<"readConfig", "loadProject", "createMachine">>
  /\ calls[3].status = "failed"
  /\ outcome.kind = "throw"

----------------------------------------------------------------------------
(* Properties of syncFilesToRemote and buildServerImage *)

\* C3: a run of syncFilesToRemote that fails, in whichever of its sub-steps,
\* fails with exactly FAILED_TO_SYNC_TO_REMOTE.
C3_SyncFailsWithSyncError ==
  (op.name = "syncFilesToRemote" /\ outcome.kind = "throw")
  => outcome.error = FAILED_TO_SYNC_TO_REMOTE

C5_BuildFailureIsBuildError ==
  (op.name = "buildServerImage" /\ calls[1].status = "failed")
  => outcome = Throw(FAILED_TO_BUILD_SERVER_IMAGE)

----------------------------------------------------------------------------
(* Properties of createRemoteContainer and of the generated configuration *)

\* C6: the step on which createRemoteContainer returns yields an entry whose
\* dockerId is the Id of the create response, whose machine is the machine of
\* remoteObj and whose other fields are those of the input container; the
\* input container and remoteObj are the same after the step.
C6_CreateReturnsInputWithIdAndMachine ==
  [][(pc = "containerCreate" /\ outcome'.kind = "return")
     => /\ calls'[1].status = "ok"
        /\ outcome'.value.dockerId = calls'[1].res.value.Id
        /\ outcome'.value.machine = op.remoteObj.machine
        /\ DOMAIN outcome'.value = DOMAIN op.container \cup {"dockerId", "machine"}
        /\ \A f \in DOMAIN op.container \ {"dockerId", "machine"} :
             outcome'.value[f] = op.container[f]
        /\ op' = op
        /\ remoteObj' = remoteObj]_vars

C6_Witness ==
  /\ op.name = "createRemoteContainer"
  /\ outcome.kind = "return"
  /\ Has(op.container, "nginx")
  /\ ~Has(op.container, "machine")
  /\ outcome.value.dockerId = "f00d42"
  /\ outcome.value.machine = "dockdev-demo"

\* C7: a run of createRemoteContainer makes exactly one external call, to
\* containerCreate; once that call has failed the run has failed with the
\* error of that call and has returned no entry.
C7_CreateOnceAndPropagate ==
  op.name = "createRemoteContainer" =>
    /\ Names(calls) = <<"containerCreate">>
    /\ calls[1].status = "failed" => outcome = Throw(calls[1].res.error)
    /\ pc = "idle" => calls[1].status # "pending"

C7_Witness ==
  /\ op.name = "createRemoteContainer"
  /\ calls[1].status = "failed"
  /\ outcome = Throw("ECONNREFUSED")

Pipeline == {"initRemote", "syncFilesToRemote", "buildServerImage"}

ProxyEntry(r) == addNginxContainer(<<>>, r)[1]

\* C8: after initRemote, syncFilesToRemote and buildServerImage succeeded for a
\* project, createRemoteContainer on the server entry of the record returns an
\* entry named "server0" with image "dockdev/<cleanName>:0", and on the proxy
\* entry of addNginxContainer an entry named "proxy"; both have a non-empty
\* dockerId and the machine "dockdev-<cleanName>".
C8_EndToEnd ==
  (op.name = "createRemoteContainer" /\ outcome.kind = "return" /\ Pipeline \subseteq done)
  => /\ op.container = remoteServerObj(op.remoteObj)
        => /\ outcome.value.name = "server0"
           /\ outcome.value.image = "dockdev/" \o op.remoteObj.cleanName \o ":0"
           /\ outcome.value.server = TRUE
           /\ outcome.value.dockerId # ""
           /\ outcome.value.machine = "dockdev-" \o op.remoteObj.cleanName
     /\ (op.container \in Range(containers) /\ op.container = ProxyEntry(op.remoteObj))
        => /\ outcome.value.name = "proxy"
           /\ outcome.value.nginx = TRUE
           /\ outcome.value.dockerId # ""
           /\ outcome.value.machine = "dockdev-" \o op.remoteObj.cleanName

C8_Witness ==
  /\ op.name = "createRemoteContainer"
  /\ outcome.kind = "return"
  /\ Pipeline \subseteq done
  /\ op.remoteObj.cleanName = "blog"
  /\ Len(containers) = 2
  /\ containers[1] = remoteServerObj(op.remoteObj)
  /\ containers[2] = op.container
  /\ outcome.value.name = "proxy"
  /\ outcome.value.machine = "dockdev-blog"

\* the configuration a run of createRemoteContainer passed to containerCreate
PassedConfig == calls[1].args[2]

\* C9 as stated: for a server container the configuration passed to
\* containerCreate has NetworkMode equal to the cleanName of the record and
\* exactly one Env entry, "VIRTUAL_HOST=" followed by the record's ipAddress.
C9_NetworkModeIsRecordCleanName ==
  (op.name = "createRemoteContainer" /\ Truthy(op.container, "server"))
  => /\ PassedConfig.HostConfig.NetworkMode = op.remoteObj.cleanName
     /\ PassedConfig.Env = <<"VIRTUAL_HOST=" \o op.remoteObj.ipAddress>>

\* C9 amended: for a server container the configuration passed to
\* containerCreate has NetworkMode equal to the cleanName of the container
\* and exactly one Env entry, "VIRTUAL_HOST=" followed by the record's ipAddress.
C9_NetworkModeIsContainerCleanName ==
  (op.name = "createRemoteContainer" /\ Truthy(op.container, "server"))
  => /\ PassedConfig.HostConfig.NetworkMode = op.container.cleanName
     /\ PassedConfig.Env = <<"VIRTUAL_HOST=" \o op.remoteObj.ipAddress>>

C9_Witness ==
  /\ op.name = "createRemoteContainer"
  /\ Truthy(op.container, "server")
  /\ op.container.cleanName = "demo"
  /\ op.remoteObj.cleanName = "blog"
  /\ op.remoteObj.ipAddress = "10.0.0.7"
  /\ PassedConfig.HostConfig.NetworkMode = "demo"
  /\ PassedConfig.Env = <<"VIRTUAL_HOST=10.0.0.7">>

ProxyShape(config) ==
  /\ Has(config, "ExposedPorts")
  /\ DOMAIN config.ExposedPorts = {"80/tcp"}
  /\ Has(config.HostConfig, "PortBindings")
  /\ DOMAIN config.HostConfig.PortBindings = DOMAIN config.ExposedPorts
  /\ config.HostConfig.PortBindings["80/tcp"] = <<[HostPort |-> "80"]>>
  /\ Has(config.HostConfig, "Binds")
  /\ config.HostConfig.Binds = <<"/var/run/docker.sock:/tmp/docker.sock:ro">>

\* C10 as stated: for a container with nginx = true, whatever its server flag,
\* the configuration exposes 80/tcp, binds host port 80 to 80/tcp and mounts
\* /var/run/docker.sock read-only.
C10_NginxGetsProxyShape ==
  (op.name = "createRemoteContainer" /\ Truthy(op.container, "nginx"))
  => ProxyShape(PassedConfig)

\* C10 amended: for a container with nginx = true whose server flag is not
\* true, the configuration exposes 80/tcp, binds host port 80 to 80/tcp under
\* the same port key and mounts /var/run/docker.sock read-only.
C10_NginxNotServerGetsProxyShape ==
  (op.name = "createRemoteContainer" /\ Truthy(op.container, "nginx")
     /\ ~Truthy(op.container, "server"))
  => ProxyShape(PassedConfig)

C10_Witness ==
  /\ op.name = "createRemoteContainer"
  /\ op.container = ProxyEntry(op.remoteObj)
  /\ ProxyShape(PassedConfig)
  /\ PassedConfig.name = "proxy"
  /\ PassedConfig.image = "jwilder/nginx-proxy"

----------------------------------------------------------------------------
(* Dispatch of the configuration generator *)

\* C11: the configuration passed to containerCreate has the server shape
\* when the container's server flag is true, even if nginx is true too; the
\* proxy shape when server is not true and nginx is true; and otherwise the
\* database shape: image, name and HostConfig.NetworkMode = cleanName of the
\* container, with no Env, Binds or port entries.
C11_DispatchPrecedence ==
  op.name = "createRemoteContainer" =>
    /\ PassedConfig.image = op.container.image
    /\ PassedConfig.name = op.container.name
    /\ Truthy(op.container, "server")
       => /\ DOMAIN PassedConfig = {"image", "name", "Env", "HostConfig"}
          /\ DOMAIN PassedConfig.HostConfig = {"NetworkMode"}
          /\ Len(PassedConfig.Env) = 1
    /\ (~Truthy(op.container, "server") /\ Truthy(op.container, "nginx"))
       => /\ DOMAIN PassedConfig = {"image", "name", "HostConfig", "ExposedPorts"}
          /\ DOMAIN PassedConfig.HostConfig = {"Binds", "PortBindings"}
          /\ ProxyShape(PassedConfig)
    /\ (~Truthy(op.container, "server") /\ ~Truthy(op.container, "nginx"))
       => /\ DOMAIN PassedConfig = {"image", "name", "HostConfig"}
          /\ DOMAIN PassedConfig.HostConfig = {"NetworkMode"}
          /\ PassedConfig.HostConfig.NetworkMode = op.container.cleanName

C11_Witness ==
  /\ op.name = "createRemoteContainer"
  /\ Truthy(op.container, "server")
  /\ Truthy(op.container, "nginx")
  /\ Has(PassedConfig, "Env")
  /\ ~Has(PassedConfig, "ExposedPorts")

----------------------------------------------------------------------------
(* Properties of the container sequence and of the build counter *)

\* C12: addNginxContainer(cs, r) returns a sequence one longer than cs whose
\* first Len(cs) elements are those of cs, in order and unaltered, and whose
\* last element has nginx = true, server = false and name = "proxy"; the
\* sequence the caller passed is the same after the call.
C12_AddNginxAppends ==
  (op.name = "addNginxContainer" /\ outcome.kind = "return")
  => LET cs  == op.containers
         out == outcome.value
     IN /\ Len(out) = Len(cs) + 1
        /\ \A i \in 1..Len(cs) : out[i] = cs[i]
        /\ Truthy(out[Len(out)], "nginx")
        /\ out[Len(out)].server = FALSE
        /\ out[Len(out)].name = "proxy"
        /\ containers = cs

C12_Witness ==
  /\ op.name = "addNginxContainer"
  /\ outcome.kind = "return"
  /\ Len(op.containers) = 2
  /\ op.containers[1] # op.containers[2]
  /\ Len(outcome.value) = 3
  /\ outcome.value[3].name = "proxy"
  /\ containers = op.containers

NginxEntries(cs) == {i \in DOMAIN cs : Truthy(cs[i], "nginx")}

\* C13: the caller's container sequence holds at most one entry with
\* nginx = true, whatever steps were run, repeated addNginxContainer included.
C13_AtMostOneNginx == Cardinality(NginxEntries(containers)) <= 1

\* C14: counter never decreases, and a successful run of buildServerImage
\* never tags its image with a name an earlier successful build of the same
\* record has used.
C14_BuildsNeverReuseATag ==
  [][/\ (IsRecord(remoteObj) /\ IsRecord(remoteObj'))
        => remoteObj'.counter >= remoteObj.counter
     /\ (pc = "ssh" /\ outcome'.kind = "return")
        => \E tag \in built' : tag \notin built]_vars

\* C15: remoteServerObj(r) is the entry with the cleanName and machine of r,
\* image "dockdev/<cleanName>:<counter>", name "server<counter>", server = true,
\* status "pending" and an empty dockerId; r is the same after the call.
C15_RemoteServerObjFields ==
  (op.name = "remoteServerObj" /\ outcome.kind = "return")
  => LET r == op.remoteObj IN
     /\ outcome.value =
          [cleanName |-> r.cleanName,
           image     |-> "dockdev/" \o r.cleanName \o ":" \o ToString(r.counter),
           name      |-> "server" \o ToString(r.counter),
           server    |-> TRUE,
           status    |-> "pending",
           dockerId  |-> "",
           machine   |-> r.machine]
     /\ remoteObj = r

C15_Witness ==
  /\ op.name = "remoteServerObj"
  /\ op.remoteObj.cleanName = "demo"
  /\ op.remoteObj.counter = 2
  /\ outcome.kind = "return"
  /\ outcome.value.image = "dockdev/demo:2"
  /\ outcome.value.name = "server2"
  /\ outcome.value.machine = "dockdev-demo"

----------------------------------------------------------------------------
(* Properties of createDockerfile *)

HasServer(cs) == \E i \in DOMAIN cs : Truthy(cs[i], "server")

FirstServer(cs) ==
  cs[CHOOSE i \in DOMAIN cs :
       /\ Truthy(cs[i], "server")
       /\ \A j \in 1..(i - 1) : ~Truthy(cs[j], "server")]

Template(image) ==
  "From " \o image
    \o "\nCOPY . /app\nWORKDIR /app\nRUN [\"npm\", \"install\", \"--production\"]"
    \o "\nEXPOSE 3000\nCMD [\"npm\", \"start\"]"

\* C16: with a server container in the list, createDockerfile makes exactly
\* one external call, writeFile of basePath + "/Dockerfile" with the template
\* text for the image of the first server container in list order, and
\* returns true once the write has succeeded.
C16_DockerfileOfFirstServer ==
  (op.name = "createDockerfile" /\ HasServer(op.containers))
  => /\ Names(calls) = <<"writeFile">>
     /\ calls[1].args = <<op.basePath \o "/Dockerfile",
                          Template(FirstServer(op.containers).image)>>
     /\ calls[1].status = "ok" => outcome = Return(TRUE)
     /\ outcome.kind = "return" => calls[1].status = "ok"

C16_Witness ==
  /\ op.name = "createDockerfile"
  /\ Len(op.containers) = 2
  /\ Truthy(op.containers[1], "server")
  /\ Truthy(op.containers[2], "server")
  /\ op.containers[1].image = "node:8"
  /\ op.containers[2].image = "mongo:3"
  /\ calls[1].args[1] = "/home/me/blog/Dockerfile"
  /\ calls[1].args[2] = Template("node:8")
  /\ outcome = Return(TRUE)

\* C17: a run of createDockerfile that fails has failed with exactly
\* FAILED_TO_CREATE_DOCKERFILE: after a failed write it has not returned, and
\* with no server container in the list it has failed without calling writeFile.
C17_DockerfileFailures ==
  op.name = "createDockerfile" =>
    /\ outcome.kind = "throw" => outcome.error = FAILED_TO_CREATE_DOCKERFILE
    /\ (calls # <<>> /\ calls[1].status = "failed")
       => outcome = Throw(FAILED_TO_CREATE_DOCKERFILE)
    /\ ~HasServer(op.containers)
       => /\ calls = <<>>
          /\ outcome = Throw(FAILED_TO_CREATE_DOCKERFILE)

C17_Witness ==
  /\ op.name = "createDockerfile"
  /\ Len(op.containers) = 2
  /\ ~HasServer(op.containers)
  /\ calls = <<>>
  /\ outcome = Throw(FAILED_TO_CREATE_DOCKERFILE)

----------------------------------------------------------------------------
(* Properties of the record across the steps *)

\* C18: the record the caller holds has an empty ipAddress as long as no
\* syncFilesToRemote has succeeded on it; the record initRemote returns has
\* ipAddress = ''; and only the step on which syncFilesToRemote returns
\* yields a record whose ipAddress differs from that of its input.
C18_IpOnlyFromSync ==
  [][/\ (IsRecord(remoteObj') /\ "syncFilesToRemote" \notin done')
        => remoteObj'.ipAddress = ""
     /\ (op'.name = "initRemote" /\ outcome'.kind = "return")
        => outcome'.value.ipAddress = ""
     /\ (IsRecord(remoteObj) /\ IsRecord(remoteObj') /\ op'.name # "initRemote"
           /\ remoteObj'.ipAddress # remoteObj.ipAddress)
        => (pc = "rsync" /\ outcome'.kind = "return")]_vars

C18_Witness ==
  /\ op.name = "createRemoteContainer"
  /\ outcome.kind = "return"
  /\ "buildServerImage" \in done
  /\ "syncFilesToRemote" \notin done
  /\ remoteObj.ipAddress = ""
  /\ PassedConfig.image = "mongo:3"

\* C19: the command buildServerImage(r) runs tags the image with
\* remoteServerObj(r).image, and after a successful build of r the
\* configuration createRemoteContainer passes for remoteServerObj(r) names an
\* image that was built.
C19_BuildTagIsServerImage ==
  /\ op.name = "buildServerImage"
     => calls[1].args[2] =
          "docker build -t " \o remoteServerObj(op.remoteObj).image \o " ."
  /\ (op.name = "createRemoteContainer" /\ "buildServerImage" \in done
        /\ op.container = remoteServerObj(op.remoteObj))
     => PassedConfig.image \in built

C19_Witness ==
  /\ op.name = "createRemoteContainer"
  /\ "buildServerImage" \in done
  /\ op.remoteObj.counter = 2
  /\ op.container = remoteServerObj(op.remoteObj)
  /\ PassedConfig.image = "dockdev/blog:2"
  /\ built = {"dockdev/blog:2"}

\* the machine handle of the project the running step works for
Handle ==
  "dockdev-" \o (IF op.name = "initRemote" THEN op.cleanName ELSE op.remoteObj.cleanName)

\* C20: every external call of a step names the machine "dockdev-" + cleanName
\* of its project: createMachine gets it last, after the driver flag and the
\* access-token flag; inspect, ssh and containerCreate get it first; and the
\* records and entries the steps return keep machine and cleanName.
C20_OneMachineHandle ==
  /\ \A i \in DOMAIN calls :
       /\ calls[i].fn = "createMachine"
          => calls[i].args = <<"--driver digitalocean",
                               "--digitalocean-access-token=" \o frame.DOToken,
                               Handle>>
       /\ calls[i].fn \in {"inspect", "ssh", "containerCreate"}
          => calls[i].args[1] = Handle
       /\ calls[i].fn = "createRemoteNetwork"
          => calls[i].args[1].machine = Handle
  /\ IsRecord(remoteObj) => remoteObj.machine = "dockdev-" \o remoteObj.cleanName
  /\ (op.name \in {"initRemote", "syncFilesToRemote"} /\ outcome.kind = "return")
     => /\ outcome.value.machine = Handle
        /\ "dockdev-" \o outcome.value.cleanName = Handle
  /\ (op.name = "createRemoteContainer" /\ outcome.kind = "return")
     => outcome.value.machine = Handle

C20_Witness ==
  /\ op.name = "initRemote"
  /\ op.cleanName = "demo"
  /\ Names(calls) = <<"readConfig", "loadProject", "createMachine", "writeProj">>
  /\ calls[3].args = <<"--driver digitalocean",
                       "--digitalocean-access-token=dop_v1_token",
                       "dockdev-demo">>
  /\ calls[3].status = "ok"

====
